---- MODULE Spec2Model ----
(***************************************************************************)
(* research_pal: the paper-summarisation pipeline.                         *)
(*                                                                         *)
(*   SpecRouter  LLMInterface: construction, query_model, and the two      *)
(*               transports query_openai / query_google under their        *)
(*               tenacity retry decorators.                                *)
(*   Spec        PaperSummarizer.summarize_paper: extraction, the chunk    *)
(*               fan-out under asyncio.gather, merge, analysis, the        *)
(*               derivative generators, identity, domain and the store.    *)
(*                                                                         *)
(* Texts are abstracted to what the code branches on; every await of the   *)
(* code is a step boundary.                                                *)
(***************************************************************************)
EXTENDS Integers, Sequences, FiniteSets, TLC

VARIABLES
    openai_api_key,   \* LLMInterface.openai_api_key is set (truthy)
    google_api_key,   \* LLMInterface.google_api_key is set (truthy)
    default_model,    \* LLMInterface.default_model after __init__
    call,             \* the router call in progress (query_model / transport)
    install,          \* what the installation resolves: see PipelineInit
    run,              \* the summarize_paper call in progress
    db,               \* ChromaManager.papers_collection: paper_id -> entry
    ids,              \* the last two calls of PaperSummarizer._generate_paper_id
    papers_collection,\* ChromaManager.papers_collection: id -> document, metadata
    updates,          \* number of update_paper_field calls made so far
    reply,            \* the ChromaManager / idempotency-check call just made
    assembly,         \* merge, analysis and record assembly of one summarize_paper
    chunker,          \* the PDFProcessor._chunk_text call in progress
    batch             \* the summarize_paper calls of one batch_process

routerVars == <<openai_api_key, google_api_key, default_model, call>>

pipelineVars == <<install, run, db>>

\* The state of the components that are checked on their own.
storeVars == <<papers_collection, updates, reply>>

libraryVars == <<ids, papers_collection, updates, reply, assembly, chunker, batch>>

vars == <<openai_api_key, google_api_key, default_model, call, install, run, db, ids,
          papers_collection, updates, reply, assembly, chunker, batch>>

None == "None"

-----------------------------------------------------------------------------
(* The model registry, llm_interface.py:53-100 *)

model_configs ==
    [ m \in {"gpt-4o-mini", "gpt-4o", "gemini-1.5-flash",
             "gemini-1.5-flash-2.0", "gemini-1.5-pro"} |->
        CASE m = "gpt-4o-mini"          -> [provider |-> "openai", model_name |-> None]
          [] m = "gpt-4o"               -> [provider |-> "openai", model_name |-> None]
          [] m = "gemini-1.5-flash"     -> [provider |-> "google",
                                            model_name |-> "gemini-1.5-flash-latest"]
          [] m = "gemini-1.5-flash-2.0" -> [provider |-> "google",
                                            model_name |-> "gemini-1.5-flash-2.0-experimental"]
          [] m = "gemini-1.5-pro"       -> [provider |-> "google",
                                            model_name |-> "gemini-1.5-pro-latest"] ]

\* Names a caller may pass that the registry does not know.
UnregisteredModels == {"claude-3", "gpt-5", "gemini-2.0"}

ModelNames == DOMAIN model_configs \cup UnregisteredModels

\* "gemini" in name / "gpt" in name, evaluated on each name of ModelNames.
ContainsGemini(m) == m \in {"gemini-1.5-flash", "gemini-1.5-flash-2.0",
                            "gemini-1.5-pro", "gemini-2.0"}

ContainsGpt(m) == m \in {"gpt-4o-mini", "gpt-4o", "gpt-5"}

\* The empty dictionary get_model_info returns for a name not in the registry.
NoInfo == [provider |-> None, model_name |-> None]

\* LLMInterface.get_model_info: model_configs.get(model_name, {})
get_model_info(m) ==
    LET name == IF m = None THEN default_model ELSE m
    IN  IF name \in DOMAIN model_configs THEN model_configs[name] ELSE NoInfo

\* LLMInterface._select_provider: model_info.get("provider", "openai")
select_provider(m) ==
    LET info == get_model_info(m)
    IN  IF info.provider = None THEN "openai" ELSE info.provider

\* LLMInterface._get_actual_model_name
get_actual_model_name(m) ==
    LET name == IF m = None THEN default_model ELSE m
        info == get_model_info(name)
    IN  IF info.provider = "google"
        THEN info.model_name
        ELSE name

\* LLMInterface.__init__: the default model from the requested default, the
\* RESEARCHPAL_DEFAULT_MODEL environment variable and the credentials present.
InitDefaultModel(requested, env, okey, gkey) ==
    LET first == IF requested = None
                 THEN IF gkey /\ ~okey
                      THEN "gemini-1.5-flash"
                      ELSE IF env = None THEN "gpt-4o-mini" ELSE env
                 ELSE requested
    IN  IF ContainsGemini(first) /\ ~gkey
        THEN IF okey THEN "gpt-4o-mini" ELSE first
        ELSE IF ContainsGpt(first) /\ ~okey
             THEN IF gkey THEN "gemini-1.5-flash" ELSE first
             ELSE first

-----------------------------------------------------------------------------
(* The transports and their retry policy *)

\* stop=stop_after_attempt(3) on both transports
StopAfterAttempt == 3

\* What one HTTP request of a transport can end in: a 200 answer, a status the
\* response's raise_for_status() turns into httpx.HTTPStatusError, or a timeout
\* of the 60 s budget while connecting or while waiting for the response.
HttpOutcomes == {"200", "500", "429", "400", "ConnectTimeout", "ReadTimeout"}

\* response.raise_for_status(): the exception the outcome raises, or None.
RaisedBy(o) ==
    CASE o = "200"            -> None
      [] o \in {"500", "429", "400"} -> "HTTPStatusError"
      [] o = "ConnectTimeout" -> "ConnectTimeout"
      [] o = "ReadTimeout"    -> "ReadTimeout"

\* retry=retry_if_exception_type((httpx.HTTPStatusError, httpx.ConnectTimeout))
RetryIf(exc) == exc \in {"HTTPStatusError", "ConnectTimeout"}

\* The key a transport requires.
HasKey(t) == IF t = "openai" THEN openai_api_key ELSE google_api_key

\* The model a transport ends up using for a requested model (None allowed):
\* query_openai falls back to default_model, query_google to gemini-1.5-flash.
TransportModel(t, m) ==
    IF t = "openai"
    THEN LET m1 == IF m = None THEN default_model ELSE m
         IN  IF select_provider(m1) # "openai" THEN default_model ELSE m1
    ELSE LET m1 == IF m = None THEN "gemini-1.5-flash" ELSE m
         IN  IF select_provider(m1) # "google" THEN "gemini-1.5-flash" ELSE m1

IdleCall == [pc |-> "idle", entry |-> None, requested |-> None, transport |-> None,
             api_model |-> None, attempts |-> 0, log |-> << >>, result |-> None]

\* One execution of a transport's body up to its await of client.post: the
\* credential check raises ValueError, which the retry policy does not retry.
EnterTransport(entry, requested, t, m, attempts, log) ==
    IF ~HasKey(t)
    THEN [pc |-> "done", entry |-> entry, requested |-> requested, transport |-> t,
          api_model |-> None, attempts |-> attempts, log |-> log,
          result |-> "ValueError"]
    ELSE [pc |-> "http", entry |-> entry, requested |-> requested, transport |-> t,
          api_model |-> get_actual_model_name(TransportModel(t, m)),
          attempts |-> attempts + 1, log |-> log, result |-> None]

\* LLMInterface.query_model, up to the transport's first await.
query_model(m) ==
    /\ call.pc \in {"idle", "done"}
    /\ LET m1 == IF m = None THEN default_model ELSE m
           t  == IF select_provider(m1) = "google" THEN "google" ELSE "openai"
       IN  call' = EnterTransport("query_model", m, t, m1, 0, << >>)
    /\ UNCHANGED <<openai_api_key, google_api_key, default_model>>
    /\ UNCHANGED pipelineVars
    /\ UNCHANGED libraryVars

\* A direct call of query_openai / query_google.
query_transport(t, m) ==
    /\ call.pc \in {"idle", "done"}
    /\ call' = EnterTransport(t, m, t, m, 0, << >>)
    /\ UNCHANGED <<openai_api_key, google_api_key, default_model>>
    /\ UNCHANGED pipelineVars
    /\ UNCHANGED libraryVars

\* The HTTP request of the current attempt ends with outcome o.
HttpAnswer(o) ==
    /\ call.pc = "http"
    /\ LET exc  == RaisedBy(o)
           log1 == Append(call.log, o)
       IN  call' =
             IF exc = None
             THEN [call EXCEPT !.pc = "done", !.log = log1, !.result = "text"]
             ELSE IF ~RetryIf(exc)
             THEN [call EXCEPT !.pc = "done", !.log = log1, !.result = exc]
             ELSE IF call.attempts >= StopAfterAttempt
             THEN [call EXCEPT !.pc = "done", !.log = log1, !.result = "RetryError"]
             ELSE [call EXCEPT !.pc = "backoff", !.log = log1]
    /\ UNCHANGED <<openai_api_key, google_api_key, default_model>>
    /\ UNCHANGED pipelineVars
    /\ UNCHANGED libraryVars

\* wait_random_exponential has elapsed: the transport's body runs again.
RetryAttempt ==
    /\ call.pc = "backoff"
    /\ call' = EnterTransport(call.entry, call.requested, call.transport,
                              IF call.entry = "query_model"
                              THEN (IF call.requested = None THEN default_model
                                    ELSE call.requested)
                              ELSE call.requested,
                              call.attempts, call.log)
    /\ UNCHANGED <<openai_api_key, google_api_key, default_model>>
    /\ UNCHANGED pipelineVars
    /\ UNCHANGED libraryVars

-----------------------------------------------------------------------------
(* Model responses and the JSON extraction of the generators *)

\* llm_interface.py:435 and :572, response[:500]
FallbackChars == 500

\* Lengths of raw responses: below, at and above the fallback prefix.
ResponseLens == {3, 500, 501}

Min(a, b) == IF a < b THEN a ELSE b

\* A raw model response, by what the extraction code looks at:
\*   open, close   response.find(opener) >= 0, response.rfind(closer) + 1 > 0
\*   decodes       json.loads accepts the text handed to it (the slice from the
\*                 first opener to the last closer when both exist, else the
\*                 whole response)
\*   len           len(response)
\* A response with one delimiter only can still decode as a whole: a JSON
\* string that holds the delimiter.
Shapes == [open : BOOLEAN, close : BOOLEAN, decodes : BOOLEAN]

Response(shape, n) ==
    [open |-> shape.open, close |-> shape.close, decodes |-> shape.decodes, len |-> n]

Responses == { Response(sh, n) : sh \in Shapes, n \in ResponseLens }

\* What query_model hands back to a generator: a response, or an exception
\* (ValueError for a missing key, tenacity's RetryError, an httpx error).
Raise == [open |-> FALSE, close |-> FALSE, decodes |-> FALSE, len |-> -1]

\* The results of the chunk calls, whose fallback depends on the length, and
\* of the other calls, for which one length stands for all.
QueryResults == Responses \cup {Raise}

ShapeResults == { Response(sh, 3) : sh \in Shapes } \cup {Raise}

\* The try block shared by the generators: find / rfind / json.loads.
\* A slice that starts at the opener and decodes is a value of the opener's
\* kind ("container"); a response without both delimiters that decodes as a
\* whole is some other JSON value ("value"); otherwise json.JSONDecodeError.
ExtractJson(r) ==
    IF r.open /\ r.close
    THEN IF r.decodes THEN "container" ELSE "JSONDecodeError"
    ELSE IF r.decodes THEN "value" ELSE "JSONDecodeError"

\* The ChunkSummary of the except branch, llm_interface.py:433-441
ChunkFallback(r) ==
    [SECTION_IDENTIFICATION |-> "Unknown",
     SUMMARY                |-> [chars |-> Min(r.len, FallbackChars), of |-> r.len],
     KEY_FINDINGS           |-> << >>,
     TECHNICAL_DETAILS      |-> "",
     MATH_FORMULATIONS      |-> "",
     ARCHITECTURE_DETAILS   |-> "",
     RESULTS                |-> ""]

\* A chunk summary that is not the fallback carries no fields of the model.
NoFields ==
    [SECTION_IDENTIFICATION |-> None,
     SUMMARY                |-> [chars |-> 0, of |-> 0],
     KEY_FINDINGS           |-> << >>,
     TECHNICAL_DETAILS      |-> None,
     MATH_FORMULATIONS      |-> None,
     ARCHITECTURE_DETAILS   |-> None,
     RESULTS                |-> None]

\* LLMInterface.summarize_paper_chunk after its await of query_model:
\*   kind "raised"    the exception of query_model passes through
\*   kind "dict"      the decoded JSON object
\*   kind "value"     json.loads of a response without braces: returned as it
\*                    is (a list, string, number, bool or null)
\*   kind "fallback"  the except json.JSONDecodeError branch
summarize_paper_chunk(r) ==
    IF r = Raise
    THEN [kind |-> "raised", fields |-> NoFields]
    ELSE CASE ExtractJson(r) = "container"       -> [kind |-> "dict", fields |-> NoFields]
           [] ExtractJson(r) = "value"           -> [kind |-> "value", fields |-> NoFields]
           [] ExtractJson(r) = "JSONDecodeError" -> [kind |-> "fallback",
                                                     fields |-> ChunkFallback(r)]

\* LLMInterface.merge_chunk_summaries after its await: the full summary, by
\* kind and by whether its ARCHITECTURE is a non-empty text.  A decoded value
\* that is no dict makes the expected-fields loop raise TypeError.
merge_chunk_summaries(r, arch) ==
    IF r = Raise
    THEN [kind |-> "raised", ARCHITECTURE |-> FALSE]
    ELSE CASE ExtractJson(r) = "container"       -> [kind |-> "dict", ARCHITECTURE |-> arch]
           [] ExtractJson(r) = "value"           -> [kind |-> "TypeError", ARCHITECTURE |-> FALSE]
           [] ExtractJson(r) = "JSONDecodeError" -> [kind |-> "fallback", ARCHITECTURE |-> FALSE]

\* LLMInterface.generate_comprehensive_analysis after its await.
generate_comprehensive_analysis(r) ==
    IF r = Raise
    THEN "raised"
    ELSE CASE ExtractJson(r) = "container"       -> "dict"
           [] ExtractJson(r) = "value"           -> "value"
           [] ExtractJson(r) = "JSONDecodeError" -> "fallback"

\* LLMInterface.generate_similar_papers after its await; the delimiters are
\* the square brackets.  items: the decoded array holds objects only; sized:
\* a decoded value that is no array has a len() (a dict or a string).
\*   "papers"    a list of dicts (also the fallback list of the except branch)
\*   "list"      a list with an element that is no dict
\*   "sized"     a dict or a string
\*   "unsized"   a number, a bool or null
generate_similar_papers(r, items, sized) ==
    IF r = Raise
    THEN "raised"
    ELSE CASE ExtractJson(r) = "container"       -> IF items THEN "papers" ELSE "list"
           [] ExtractJson(r) = "value"           -> IF sized THEN "sized" ELSE "unsized"
           [] ExtractJson(r) = "JSONDecodeError" -> "papers"

\* generate_code_implementation / generate_blog_post after their await: the
\* text they return, which may be the empty string.
GeneratedText(r, empty) ==
    IF r = Raise THEN "raised"
    ELSE IF empty THEN "" ELSE "text"

-----------------------------------------------------------------------------
(* PaperSummarizer.summarize_paper *)

\* Most chunks extract_and_chunk returns for one paper.
MaxChunks == 2

Chunks == 1..MaxChunks

Filepaths == {"a.pdf", "b.pdf"}

\* The identifier tests/conftest.py gives its replacement of _generate_paper_id.
PaperIds == {"mock123"}

Stages == {"extract_and_chunk", "summarize_paper_chunk", "merge_chunk_summaries",
           "generate_comprehensive_analysis", "generate_similar_papers",
           "generate_code_implementation", "generate_blog_post",
           "generate_paper_id", "determine_paper_domain", "add_paper"}

\* The model-calling stages.
ModelStages == {"summarize_paper_chunk", "merge_chunk_summaries",
                "generate_comprehensive_analysis", "generate_similar_papers",
                "generate_code_implementation", "generate_blog_post",
                "determine_paper_domain"}

NoSummary == [kind |-> None, fields |-> NoFields]

NoRecord == [paper_id |-> None, filepath |-> None, domain |-> None, keys |-> {}]

\* The keys of every record summarize_paper assembles, summarizer.py:305-330
PrimaryKeys == {"paper_id", "title", "filepath", "timestamp", "metadata", "domain",
                "summary", "problem_statement", "methodology", "architecture",
                "key_results", "implications", "takeaways", "important_ideas",
                "future_directions", "novelty", "limitations",
                "practical_applications", "related_work", "background",
                "math_formulations", "similar_papers", "highlighted_text",
                "figures_tables"}

NoEntry == [filepath |-> None, domain |-> None]

\* The collection with no paper stored.
EmptyDb == [id \in PaperIds |-> NoEntry]

IdleRun ==
    [pc |-> "idle", filepath |-> None, file_exists |-> FALSE,
     generate_code |-> FALSE, generate_blog |-> FALSE,
     nchunks |-> 0,
     tasks |-> [i \in Chunks |-> "none"],
     chunk_summaries |-> [i \in Chunks |-> NoSummary],
     merged |-> -1,
     full_summary |-> [kind |-> None, ARCHITECTURE |-> FALSE],
     analysis |-> None, similar_papers |-> None,
     code_implementation |-> None, blog_post |-> None,
     paper_id |-> None, domain |-> None,
     calls |-> [st \in Stages |-> 0],
     outcome |-> None, error |-> None, raised_in |-> None,
     result |-> NoRecord,
     db_before |-> EmptyDb]

Called(r, st) == [r EXCEPT !.calls[st] = @ + 1]

\* An exception leaves summarize_paper: no later line of it runs.
Propagate(r, exc, st) ==
    [r EXCEPT !.pc = "done", !.outcome = "raised", !.error = exc, !.raised_in = st]

\* extract_and_chunk without its os.path.exists check.
extract_and_chunk_unchecked(exists) == "chunks"

\* PDFProcessor.extract_and_chunk, pdf_processor.py:42-43
extract_and_chunk(exists) == IF exists THEN "chunks" ELSE "FileNotFoundError"

\* PaperSummarizer._generate_paper_id.  summarizer.py imports os, logging,
\* asyncio, typing, json, hashlib and datetime (lines 1-7) and not re, so the
\* re.sub of line 63 raises NameError; tests/conftest.py:157 replaces the
\* method by a mock that returns a fixed identifier.
generate_paper_id(patched) == IF patched THEN "mock123" ELSE "NameError"

\* summarizer.py:283-293: the identifier, then the call of
\* determine_paper_domain up to its await.
Identify(r) ==
    LET r1 == Called(r, "generate_paper_id")
        id == generate_paper_id(install.paper_id_patched)
    IN  IF id = "NameError"
        THEN Propagate(r1, "NameError", "generate_paper_id")
        ELSE [Called(r1, "determine_paper_domain") EXCEPT !.paper_id = id, !.pc = "domain"]

\* summarizer.py:272-281
BlogOrOn(r) ==
    IF r.generate_blog
    THEN [Called(r, "generate_blog_post") EXCEPT !.pc = "blog"]
    ELSE Identify(r)

\* A code stage that runs whenever code was asked for.
CodeOrOn_requested(r) ==
    IF r.generate_code
    THEN [Called(r, "generate_code_implementation") EXCEPT !.pc = "code"]
    ELSE BlogOrOn(r)

\* summarizer.py:260-270
CodeOrOn(r) ==
    IF r.generate_code /\ r.full_summary.ARCHITECTURE
    THEN [Called(r, "generate_code_implementation") EXCEPT !.pc = "code"]
    ELSE BlogOrOn(r)

\* summarizer.py:201-226: extraction, then one summarize_paper_chunk coroutine
\* per chunk handed to asyncio.gather.
StartRun(f, exists, gc, gb, n) ==
    LET r0 == [IdleRun EXCEPT !.filepath = f, !.file_exists = exists,
                              !.generate_code = gc, !.generate_blog = gb,
                              !.db_before = db]
        r1 == Called(r0, "extract_and_chunk")
    IN  IF extract_and_chunk(exists) = "FileNotFoundError"
        THEN Propagate(r1, "FileNotFoundError", "extract_and_chunk")
        ELSE [r1 EXCEPT !.pc = "gather", !.nchunks = n,
                        !.tasks = [i \in Chunks |-> IF i <= n THEN "pending" ELSE "none"],
                        !.calls["summarize_paper_chunk"] = n]

summarize_paper(f, exists, gc, gb, n) ==
    /\ run.pc = "idle"
    /\ run' = StartRun(f, exists, gc, gb, n)
    /\ UNCHANGED <<install, db>>
    /\ UNCHANGED routerVars
    /\ UNCHANGED libraryVars

\* The task of chunk i ends: its query_model answers (or raises) and
\* summarize_paper_chunk finishes.  gather cancels no task, so a task also
\* ends after the exception of a sibling has left summarize_paper.
ChunkDone(i, r) ==
    /\ run.pc \in {"gather", "done"}
    /\ run.tasks[i] = "pending"
    /\ LET s == summarize_paper_chunk(r)
       IN  run' = [run EXCEPT !.tasks[i] = IF s.kind = "raised" THEN "raised" ELSE "returned",
                              !.chunk_summaries[i] = s]
    /\ UNCHANGED <<install, db>>
    /\ UNCHANGED routerVars
    /\ UNCHANGED libraryVars

\* A gather that resumes summarize_paper at the first task that returns.
GatherOutcome_first(tasks, n) ==
    IF \E i \in 1..n : tasks[i] = "raised" THEN "raise"
    ELSE IF n = 0 \/ \E i \in 1..n : tasks[i] = "returned" THEN "results"
    ELSE "wait"

\* asyncio.gather(*tasks) without return_exceptions, summarizer.py:228: the
\* first exception of a task is raised in the awaiting summarize_paper; when
\* every task has returned the list of results is.
GatherOutcome(tasks, n) ==
    IF \E i \in 1..n : tasks[i] = "raised" THEN "raise"
    ELSE IF \A i \in 1..n : tasks[i] = "returned" THEN "results"
    ELSE "wait"

\* merge_chunk_summaries before its await, llm_interface.py:458-480: s.get on
\* every summary, which a summary that is no dict does not have.
MergePrologue(summaries, n) ==
    IF \E i \in 1..n : summaries[i].kind = "value" THEN "AttributeError" ELSE "ok"

\* The summaries handed to merge_chunk_summaries; summarize_paper does not read
\* chunk_summaries after line 233, and the run keeps their number only.
Consumed(r) ==
    [r EXCEPT !.merged = r.nchunks, !.chunk_summaries = [i \in Chunks |-> NoSummary]]

\* summarize_paper resumes from gather and calls merge_chunk_summaries.
GatherDone ==
    /\ run.pc = "gather"
    /\ GatherOutcome(run.tasks, run.nchunks) # "wait"
    /\ run' =
         IF GatherOutcome(run.tasks, run.nchunks) = "raise"
         THEN Propagate(run, "QueryError", "summarize_paper_chunk")
         ELSE LET r1 == Consumed(Called(run, "merge_chunk_summaries"))
              IN  IF MergePrologue(run.chunk_summaries, run.nchunks) = "AttributeError"
                  THEN Propagate(r1, "AttributeError", "merge_chunk_summaries")
                  ELSE [r1 EXCEPT !.pc = "merge"]
    /\ UNCHANGED <<install, db>>
    /\ UNCHANGED routerVars
    /\ UNCHANGED libraryVars

\* generate_comprehensive_analysis before its await, llm_interface.py:601-643:
\* the import of research_pal.prompts, a module that is not among the sources
\* (research_pal/core/prompts.py is), so that whether it resolves is a fact of
\* the installation.
AnalysisPrologue(importable) == IF importable THEN "ok" ELSE "ModuleNotFoundError"

\* The merge call ends; summarize_paper calls generate_comprehensive_analysis.
MergeDone(r, arch) ==
    /\ run.pc = "merge"
    /\ LET fs == merge_chunk_summaries(r, arch)
       IN  run' =
             IF fs.kind = "raised"
             THEN Propagate(run, "QueryError", "merge_chunk_summaries")
             ELSE IF fs.kind = "TypeError"
             THEN Propagate(run, "TypeError", "merge_chunk_summaries")
             ELSE LET r1 == Called([run EXCEPT !.full_summary = fs],
                                   "generate_comprehensive_analysis")
                  IN  IF AnalysisPrologue(install.prompts_importable) = "ok"
                      THEN [r1 EXCEPT !.pc = "analysis"]
                      ELSE Propagate(r1, "ModuleNotFoundError",
                                     "generate_comprehensive_analysis")
    /\ UNCHANGED <<install, db>>
    /\ UNCHANGED routerVars
    /\ UNCHANGED libraryVars

\* The analysis call ends; summarize_paper calls generate_similar_papers.
AnalysisDone(r) ==
    /\ run.pc = "analysis"
    /\ LET a == generate_comprehensive_analysis(r)
       IN  run' =
             IF a = "raised"
             THEN Propagate(run, "QueryError", "generate_comprehensive_analysis")
             ELSE [Called([run EXCEPT !.analysis = a], "generate_similar_papers")
                     EXCEPT !.pc = "similar"]
    /\ UNCHANGED <<install, db>>
    /\ UNCHANGED routerVars
    /\ UNCHANGED libraryVars

\* The similar-papers call ends; line 258 takes len(similar_papers).
SimilarDone(r, items, sized) ==
    /\ run.pc = "similar"
    /\ LET sp == generate_similar_papers(r, items, sized)
       IN  run' =
             IF sp = "raised"
             THEN Propagate(run, "QueryError", "generate_similar_papers")
             ELSE IF sp = "unsized"
             THEN Propagate([run EXCEPT !.similar_papers = sp], "TypeError", "summarize_paper")
             ELSE CodeOrOn([run EXCEPT !.similar_papers = sp])
    /\ UNCHANGED <<install, db>>
    /\ UNCHANGED routerVars
    /\ UNCHANGED libraryVars

\* The code-generation call ends.
CodeDone(r, empty) ==
    /\ run.pc = "code"
    /\ LET c == GeneratedText(r, empty)
       IN  run' =
             IF c = "raised"
             THEN Propagate(run, "QueryError", "generate_code_implementation")
             ELSE BlogOrOn([run EXCEPT !.code_implementation = c])
    /\ UNCHANGED <<install, db>>
    /\ UNCHANGED routerVars
    /\ UNCHANGED libraryVars

\* The blog-generation call ends.
BlogDone(r, empty) ==
    /\ run.pc = "blog"
    /\ LET b == GeneratedText(r, empty)
       IN  run' =
             IF b = "raised"
             THEN Propagate(run, "QueryError", "generate_blog_post")
             ELSE Identify([run EXCEPT !.blog_post = b])
    /\ UNCHANGED <<install, db>>
    /\ UNCHANGED routerVars
    /\ UNCHANGED libraryVars

\* The caller has the record or the exception of the call; the summarizer is
\* free for the next call.
Return ==
    /\ run.pc = "done"
    /\ run' = IdleRun
    /\ UNCHANGED <<install, db>>
    /\ UNCHANGED routerVars
    /\ UNCHANGED libraryVars

\* PaperSummarizer.determine_paper_domain after its await, summarizer.py:107-124
determine_paper_domain(r) == IF r = Raise THEN "Unknown" ELSE "domain"

\* summarizer.py:332-337: the optional keys of the record.
OptionalKeys(r) ==
    (IF r.code_implementation = "text" THEN {"code_implementation"} ELSE {})
    \cup (IF r.blog_post = "text" THEN {"blog_post"} ELSE {})

\* PaperSummarizer._store_paper_summary up to the call of add_paper: line 358
\* takes p.get of every element of similar_papers inside the try block.
StoreArguments(sp) == IF sp = "papers" THEN "ok" ELSE "AttributeError"

\* The domain call ends: lines 295-342 assemble the record, store and return.
\* stored: ChromaManager.add_paper completes (it raises otherwise, and
\* _store_paper_summary logs the exception).
DomainDone(r, stored) ==
    /\ run.pc = "domain"
    /\ LET d  == determine_paper_domain(r)
           r1 == [run EXCEPT !.domain = d]
       IN  IF run.analysis = "value"
           THEN /\ run' = Propagate(r1, "AttributeError", "summarize_paper")
                /\ db' = db
           ELSE LET rec == [paper_id |-> run.paper_id, filepath |-> run.filepath,
                            domain |-> d, keys |-> PrimaryKeys \cup OptionalKeys(run)]
                    r2  == [r1 EXCEPT !.pc = "done", !.outcome = "returned", !.result = rec]
                IN  IF StoreArguments(run.similar_papers) = "AttributeError"
                    THEN /\ run' = r2
                         /\ db' = db
                    ELSE /\ run' = Called(r2, "add_paper")
                         /\ db' = IF stored
                                  THEN [db EXCEPT ![run.paper_id] =
                                          [filepath |-> run.filepath, domain |-> d]]
                                  ELSE db
    /\ UNCHANGED install
    /\ UNCHANGED routerVars
    /\ UNCHANGED libraryVars

-----------------------------------------------------------------------------
(* PaperSummarizer._generate_paper_id, summarizer.py:43-70 *)

\* Texts are sequences of characters.  A letter in both cases, a digit, the
\* underscore, a punctuation mark, the blank and the path separator.
Letters == {"a", "A"}

WordChars == Letters \cup {"1", "_"}

Whitespace == {" ", "\n"}

RECURSIVE basename(_)
\* os.path.basename: what follows the last separator.
basename(path) ==
    IF path = << >> THEN << >>
    ELSE IF \E k \in 1..Len(path) : path[k] = "/"
         THEN basename(Tail(path))
         ELSE path

\* re.sub(r'[^\w\s]', '', s)
RemoveSpecial(s) == SelectSeq(s, LAMBDA c : c \in WordChars \cup Whitespace)

RECURSIVE strip(_)
\* str.strip()
strip(s) ==
    IF s = << >> THEN s
    ELSE IF Head(s) \in Whitespace THEN strip(Tail(s))
    ELSE IF s[Len(s)] \in Whitespace THEN strip(SubSeq(s, 1, Len(s) - 1))
    ELSE s

RECURSIVE CollapseWhitespace(_)
\* re.sub(r'\s+', '_', s): every run of whitespace becomes one underscore.
CollapseWhitespace(s) ==
    IF s = << >> THEN s
    ELSE IF Head(s) \in Whitespace
         THEN IF Len(s) > 1 /\ s[2] \in Whitespace
              THEN CollapseWhitespace(Tail(s))
              ELSE <<"_">> \o CollapseWhitespace(Tail(s))
         ELSE <<Head(s)>> \o CollapseWhitespace(Tail(s))

\* str.lower()
lower(s) == [k \in 1..Len(s) |-> IF s[k] = "A" THEN "a" ELSE s[k]]

\* hashlib.md5(...).hexdigest()[:10]: the digest stands for the text hashed;
\* collisions of the hash are left out.
md5_hexdigest10(s) == <<"md5">> \o s

\* The names bound at module level in summarizer.py (lines 1-11, 13): the
\* module re is not among them.
SummarizerGlobals == {"os", "logging", "asyncio", "Dict", "List", "Optional", "Any",
                      "Union", "json", "hashlib", "datetime", "PDFProcessor",
                      "LLMInterface", "ChromaManager", "logger"}

\* _generate_paper_id(filepath, title): line 63 looks up the global re.
paper_id_of(filepath, title) ==
    LET filename == basename(filepath)
        combined == filename \o <<"_">> \o title
    IN  IF "re" \notin SummarizerGlobals
        THEN [raised |-> "NameError", value |-> << >>]
        ELSE [raised |-> None,
              value  |-> md5_hexdigest10(lower(CollapseWhitespace(strip(RemoveSpecial(combined)))))]

\* The file paths and titles _generate_paper_id is called with.
IdFilepaths == { <<"a">>, <<"A">>, <<"a", "/", "a">>, <<"a", ".">>, <<"a", "_", "a">> }

IdTitles == { << >>, <<"a">>, <<"A">>, <<"a", " ", "1">>, <<"a", "-">> }

\* No call yet.
NoIdCall == [called |-> FALSE, filepath |-> << >>, title |-> << >>,
             result |-> [raised |-> None, value |-> << >>]]

IdleIds == [previous |-> NoIdCall, last |-> NoIdCall]

\* One call of _generate_paper_id; the call before it is kept.
generate_paper_id_call(filepath, title) ==
    /\ ids' = [previous |-> ids.last,
               last |-> [called |-> TRUE, filepath |-> filepath, title |-> title,
                         result |-> paper_id_of(filepath, title)]]
    /\ UNCHANGED <<routerVars, pipelineVars, storeVars, assembly, chunker, batch>>

-----------------------------------------------------------------------------
(* ChromaManager.add_paper / get_paper, chroma_manager.py:28-139 *)

\* A text here is a sequence of tokens: words, and the separators the code
\* joins with and splits on (the blank, the bar, the newline, and ": ").
\* No two words stand side by side, so that a run of tokens spells a section
\* name only when it is that one word.
ColonBlank == ": "

\* Python None where a text is expected (Optional[str]).
NoneText == <<"<None>">>

\* Truthiness of a text: None and the empty string are falsy.
Truthy(v) == v # << >> /\ v # NoneText

\* x or ""
OrEmpty(v) == IF Truthy(v) THEN v ELSE << >>

RECURSIVE Join(_, _)
\* sep.join(parts)
Join(parts, sep) ==
    IF parts = << >> THEN << >>
    ELSE IF Len(parts) = 1 THEN parts[1]
    ELSE parts[1] \o sep \o Join(Tail(parts), sep)

\* " | ".join(items) if items else ""
BarJoin(items) == IF items # << >> THEN Join(items, <<" ", "|", " ">>) ELSE << >>

\* The keys of the document dict of add_paper, in insertion order (lines
\* 71-82); get_paper looks for the same names (lines 111-115).
SectionNames == <<"summary", "takeaways", "architecture", "important_ideas",
                  "future_ideas", "background", "math_formulations",
                  "similar_papers", "novelty", "domain">>

SectionNameSet == { SectionNames[k] : k \in 1..Len(SectionNames) }

\* chroma_manager.py:133
ListFields == {"takeaways", "important_ideas", "future_ideas", "similar_papers"}

\* chroma_manager.py:71-82
Document(p) ==
    [summary           |-> p.summary,
     takeaways         |-> BarJoin(p.takeaways),
     architecture      |-> OrEmpty(p.architecture),
     important_ideas   |-> BarJoin(p.important_ideas),
     future_ideas      |-> BarJoin(p.future_ideas),
     background        |-> OrEmpty(p.background),
     math_formulations |-> OrEmpty(p.math_formulations),
     similar_papers    |-> BarJoin(p.similar_papers),
     novelty           |-> OrEmpty(p.novelty),
     domain            |-> p.domain]

\* chroma_manager.py:85: " ".join([f"{k}: {v}" for k, v in document.items() if v])
DocumentText(p) ==
    LET d     == Document(p)
        kept  == SelectSeq(SectionNames, LAMBDA k : Truthy(d[k]))
        parts == [i \in 1..Len(kept) |-> <<kept[i], ColonBlank>> \o d[kept[i]]]
    IN  Join(parts, <<" ">>)

\* chroma_manager.py:62-68
Metadata(p) ==
    [title            |-> p.title,
     filepath         |-> p.filepath,
     domain           |-> p.domain,
     has_architecture |-> p.architecture # NoneText,
     has_math         |-> p.math_formulations # NoneText]

\* An id the collection does not hold.
NoDocument == [present |-> FALSE, document |-> << >>, metadata |-> << >>]

\* A collection.add: an id the collection holds already keeps its entry.
add_if_absent(collection, id, document, metadata) ==
    IF collection[id].present
    THEN collection
    ELSE [collection EXCEPT ![id] = [present |-> TRUE, document |-> document,
                                     metadata |-> metadata]]

\* papers_collection.upsert(ids=[id], documents=[document], metadatas=[metadata]),
\* chroma_manager.py:88-92: the entry of the id is the one given.
upsert(collection, id, document, metadata) ==
    [collection EXCEPT ![id] = [present |-> TRUE, document |-> document,
                                metadata |-> metadata]]

\* ChromaManager.add_paper
add_paper(collection, id, p) == upsert(collection, id, DocumentText(p), Metadata(p))

\* The index of the first token tok of a text, 0 when it has none.
FirstIndex(text, tok) ==
    IF \E k \in 1..Len(text) : text[k] = tok
    THEN CHOOSE k \in 1..Len(text) :
            text[k] = tok /\ \A j \in 1..(k - 1) : text[j] # tok
    ELSE 0

RECURSIVE SplitOn(_, _)
\* str.split(tok)
SplitOn(text, tok) ==
    LET k == FirstIndex(text, tok)
    IN  IF k = 0 THEN <<text>>
        ELSE <<SubSeq(text, 1, k - 1)>> \o SplitOn(SubSeq(text, k + 1, Len(text)), tok)

\* str.lower() of a word.
lower_word(w) ==
    CASE w = "Summary" -> "summary"
      [] w = "Domain"  -> "domain"
      [] OTHER         -> w

\* chroma_manager.py:111-115: ": " in line and line.split(": ")[0].lower() is
\* one of the section names.
IsSectionLine(line) ==
    LET k == FirstIndex(line, ColonBlank)
    IN  k = 2 /\ lower_word(line[1]) \in SectionNameSet

\* d[k] = v
Put(d, k, v) == [x \in DOMAIN d \cup {k} |-> IF x = k THEN v ELSE d[x]]

\* d.get(k, default)
Get(d, k, default) == IF k \in DOMAIN d THEN d[k] ELSE default

\* chroma_manager.py:117-118 and 129-130
SaveSection(sections, current_section, current_content) ==
    IF current_section # None
    THEN Put(sections, current_section, Join(current_content, <<"\n">>))
    ELSE sections

RECURSIVE ParseLines(_, _, _, _)
\* The loop of chroma_manager.py:110-130 over the lines that remain.
ParseLines(lines, sections, current_section, current_content) ==
    IF lines = << >>
    THEN SaveSection(sections, current_section, current_content)
    ELSE LET line == Head(lines)
         IN  IF IsSectionLine(line)
             THEN ParseLines(Tail(lines),
                             SaveSection(sections, current_section, current_content),
                             lower_word(line[1]),
                             <<SubSeq(line, 3, Len(line))>>)
             ELSE ParseLines(Tail(lines), sections, current_section,
                             IF current_section # None
                             THEN Append(current_content, line)
                             ELSE current_content)

\* chroma_manager.py:135: [item.strip() for item in text.split("|") if item.strip()]
SplitList(text) ==
    LET items == SplitOn(text, "|")
        stripped == [i \in 1..Len(items) |-> strip(items[i])]
    IN  SelectSeq(stripped, LAMBDA item : item # << >>)

\* chroma_manager.py:133-135
ProcessLists(sections) ==
    [k \in DOMAIN sections |-> IF k \in ListFields THEN SplitList(sections[k])
                                                   ELSE sections[k]]

\* What get_paper returns for an id the collection does not hold: None.
NoPaper == << >>

\* ChromaManager.get_paper: {**sections, **metadata}
get_paper(collection, id) ==
    IF ~collection[id].present
    THEN NoPaper
    ELSE LET lines    == SplitOn(collection[id].document, "\n")
             sections == ProcessLists(ParseLines(lines, << >>, None, << >>))
         IN  collection[id].metadata @@ sections

\* Most update_paper_field calls in a run: each can lengthen the document.
MaxUpdates == 1

StoreIds == {"p1", "p2"}

\* os.path.normpath: a leading "./" goes.
normpath(path) ==
    IF Len(path) >= 2 /\ path[1] = "." /\ path[2] = "/"
    THEN SubSeq(path, 3, Len(path))
    ELSE path

\* os.path.abspath for the working directory /cwd: normpath(join(cwd, path)).
abspath(path) ==
    IF path # << >> /\ Head(path) = "/"
    THEN path
    ELSE <<"/", "cwd", "/">> \o normpath(path)

\* os.path.expanduser for the home directory /home.
expanduser(path) ==
    IF path # << >> /\ Head(path) = "~" THEN <<"/", "home">> \o Tail(path) ELSE path

\* The paths papers are stored and looked up under: one file under a relative
\* and an absolute name, and a file of the same name elsewhere.
StoreFilepaths == { <<"a.pdf">>, <<"/", "cwd", "/", "a.pdf">>, <<"d", "/", "a.pdf">> }

\* len(title)
TitleLength(title) == IF title = <<"Attention">> THEN 9 ELSE 0

\* What a stored paper holds: nothing but its domain, a summary alone, a list
\* alone, and a summary with a list and an architecture.
PaperContents ==
    { [summary |-> << >>,    takeaways |-> << >>,                    architecture |-> NoneText],
      [summary |-> <<"S">>,  takeaways |-> << >>,                    architecture |-> NoneText],
      [summary |-> << >>,    takeaways |-> << <<"t1">>, <<"t2">> >>, architecture |-> NoneText],
      [summary |-> <<"S">>,  takeaways |-> << <<"t1">>, <<"t2">> >>, architecture |-> <<"A">>] }

\* The arguments add_paper is called with.
PaperArgs ==
    { [title             |-> <<"Attention">>,
       filepath          |-> f,
       summary           |-> c.summary,
       takeaways         |-> c.takeaways,
       architecture      |-> c.architecture,
       important_ideas   |-> << >>,
       future_ideas      |-> << >>,
       background        |-> << >>,
       math_formulations |-> << >>,
       similar_papers    |-> << >>,
       novelty           |-> << >>,
       domain            |-> <<"NLP">>] : c \in PaperContents, f \in StoreFilepaths }

\* The fields callers update and a value for each: the list fields and the
\* domain of interactive.py:776-781, code_implementation (1131) and blog_post
\* (1163).
UpdatedFields == {"takeaways", "future_ideas", "domain", "notes",
                  "code_implementation", "blog_post"}

UpdateValue(field) ==
    CASE field \in {"takeaways", "future_ideas", "notes"} -> << <<"u">> >>
      [] field = "domain"                          -> <<"CV">>
      [] OTHER                                     -> <<"text">>

EmptyCollection == [id \in StoreIds |-> NoDocument]

IdleReply ==
    [op |-> "idle", id |-> None, field |-> None, raised |-> None,
     value |-> << >>, args |-> << >>, before |-> NoPaper, paper |-> NoPaper,
     replaced |-> FALSE, filepath |-> << >>, found |-> None, skipped |-> FALSE,
     store_raised |-> FALSE]

\* A caller adds a paper.  The reply keeps what a get_paper of the id returns
\* from then on, and whether a different entry was there.
AddPaper(id, p) ==
    /\ reply.op = "idle"
    /\ papers_collection' = add_paper(papers_collection, id, p)
    /\ reply' = [IdleReply EXCEPT
                    !.op = "add_paper", !.id = id, !.args = p,
                    !.paper = get_paper(papers_collection', id),
                    !.replaced = /\ papers_collection[id].present
                                 /\ papers_collection[id] # papers_collection'[id]]
    /\ UNCHANGED <<updates, ids, assembly, chunker, batch>>
    /\ UNCHANGED <<routerVars, pipelineVars>>

GetPaper(id) ==
    /\ reply.op = "idle"
    /\ reply' = [IdleReply EXCEPT !.op = "get_paper", !.id = id,
                                  !.paper = get_paper(papers_collection, id)]
    /\ UNCHANGED <<papers_collection, updates, ids, assembly, chunker, batch>>
    /\ UNCHANGED <<routerVars, pipelineVars>>

\* PaperSummarizer.get_paper_summary, summarizer.py:366-373: the paper that
\* get_paper returns, None for an id the collection does not hold; fails: the
\* collection raises on the read, which the except clause logs and answers
\* with None.
get_paper_summary(collection, id, fails) ==
    [raised |-> None,
     value  |-> IF fails THEN NoPaper ELSE get_paper(collection, id)]

\* A caller asks the summarizer for the paper of an id.
GetPaperSummary(id, fails) ==
    /\ reply.op = "idle"
    /\ LET answer == get_paper_summary(papers_collection, id, fails)
       IN  reply' = [IdleReply EXCEPT !.op = "get_paper_summary", !.id = id,
                                      !.store_raised = fails,
                                      !.raised = answer.raised,
                                      !.paper = answer.value]
    /\ UNCHANGED <<papers_collection, updates, ids, assembly, chunker, batch>>
    /\ UNCHANGED <<routerVars, pipelineVars>>

\* chroma_manager.py:266-280: the arguments of the re-add, read from the paper.
ReAddArgs(paper) ==
    [title             |-> Get(paper, "title", << >>),
     filepath          |-> Get(paper, "filepath", << >>),
     summary           |-> Get(paper, "summary", << >>),
     takeaways         |-> Get(paper, "takeaways", << >>),
     architecture      |-> Get(paper, "architecture", << >>),
     important_ideas   |-> Get(paper, "important_ideas", << >>),
     future_ideas      |-> Get(paper, "future_ideas", << >>),
     background        |-> Get(paper, "background", << >>),
     math_formulations |-> Get(paper, "math_formulations", << >>),
     similar_papers    |-> Get(paper, "similar_papers", << >>),
     novelty           |-> Get(paper, "novelty", << >>),
     domain            |-> Get(paper, "domain", <<"Unknown">>)]

\* ChromaManager.update_paper_field, chroma_manager.py:256-280
\* An update that skips the check of lines 259-260.
update_paper_field_unchecked(collection, id, field, value) ==
    add_paper(collection, id, ReAddArgs(Put(get_paper(collection, id), field, value)))

update_paper_field(collection, id, field, value) ==
    LET paper == get_paper(collection, id)
    IN  IF paper = NoPaper
        THEN collection
        ELSE add_paper(collection, id, ReAddArgs(Put(paper, field, value)))

\* PaperSummarizer.update_paper_field, summarizer.py:389-397: True, or False
\* when ChromaManager.update_paper_field raised.
summarizer_update_paper_field(raised) == raised = None

\* A caller updates one field.  The reply keeps what get_paper returned before
\* and returns afterwards.
UpdatePaperField(id, field) ==
    /\ reply.op = "idle"
    /\ updates < MaxUpdates
    /\ updates' = updates + 1
    /\ papers_collection' = update_paper_field(papers_collection, id, field, UpdateValue(field))
    /\ reply' = [IdleReply EXCEPT
                    !.op = "update_paper_field", !.id = id, !.field = field,
                    !.value = UpdateValue(field),
                    !.raised = IF get_paper(papers_collection, id) = NoPaper
                               THEN "ValueError" ELSE None,
                    !.before = get_paper(papers_collection, id),
                    !.paper = get_paper(papers_collection', id)]
    /\ UNCHANGED <<ids, assembly, chunker, batch>>
    /\ UNCHANGED <<routerVars, pipelineVars>>

\* ChromaManager.search_papers for a query that is no "domain:" / "title:"
\* query, chroma_manager.py:163-176: the papers of the ids the vector query
\* returns, which for a collection of fewer than n_results entries are all of
\* them, in the order given.
search_papers(collection, order) ==
    LET stored == SelectSeq(order, LAMBDA id : collection[id].present)
        papers == [i \in 1..Len(stored) |-> get_paper(collection, stored[i])]
    IN  SelectSeq(papers, LAMBDA paper : paper # NoPaper)

\* The orders a query can return the stored ids in.
QueryOrders == { <<"p1", "p2">>, <<"p2", "p1">> }

RECURSIVE ScanForPath(_, _, _)
\* The loop of summarizer.py:147-171 over the papers that remain.  similar:
\* the title extracted from the file and the stored title pass line 170.
ScanForPath(papers, normalized_path, similar) ==
    IF papers = << >>
    THEN None
    ELSE LET paper      == Head(papers)
             paper_path == Get(paper, "filepath", << >>)
             stored     == abspath(expanduser(paper_path))
         IN  IF paper_path # << >> /\ stored = normalized_path
             THEN Get(paper, "paper_id", None)
             ELSE IF /\ paper_path # << >>
                     /\ basename(stored) = basename(normalized_path)
                     /\ TitleLength(Get(paper, "title", << >>)) > 5
                     /\ similar
                  THEN Get(paper, "paper_id", None)
                  ELSE ScanForPath(Tail(papers), normalized_path, similar)

\* PaperSummarizer.check_paper_exists, summarizer.py:126-178
check_paper_exists(collection, filepath, order, similar) ==
    ScanForPath(search_papers(collection, order), abspath(expanduser(filepath)), similar)

RECURSIVE ScanShell(_, _)
\* The loop of interactive.py:920-936: TRUE when do_summarize returns without
\* running the pipeline.
ScanShell(papers, pdf_path) ==
    IF papers = << >>
    THEN FALSE
    ELSE LET paper == Head(papers)
         IN  IF Get(paper, "paper_id", "") = ""
             THEN ScanShell(Tail(papers), pdf_path)
             ELSE IF normpath(Get(paper, "filepath", << >>)) = normpath(pdf_path)
                  THEN TRUE
                  ELSE ScanShell(Tail(papers), pdf_path)

\* InteractiveShell.do_summarize without --force, interactive.py:912-936
already_processed(collection, pdf_path, order) ==
    ScanShell(search_papers(collection, order), pdf_path)

\* The idempotency check for a path: check_paper_exists and the shell's own.
CheckPaperExists(filepath, order, similar) ==
    /\ reply.op = "idle"
    /\ reply' = [IdleReply EXCEPT
                    !.op = "check_paper_exists", !.filepath = filepath,
                    !.found = check_paper_exists(papers_collection, filepath, order, similar),
                    !.skipped = already_processed(papers_collection, filepath, order)]
    /\ UNCHANGED <<papers_collection, updates, ids, assembly, chunker, batch>>
    /\ UNCHANGED <<routerVars, pipelineVars>>

\* The caller has the reply.
StoreReturn ==
    /\ reply.op # "idle"
    /\ reply' = IdleReply
    /\ UNCHANGED <<papers_collection, updates, ids, assembly, chunker, batch>>
    /\ UNCHANGED <<routerVars, pipelineVars>>

-----------------------------------------------------------------------------
(* The fields of the full summary, of the analysis and of the record *)

\* A JSON value, by what the code that reads it can tell apart.
ValueKinds == {"str", "empty str", "list", "empty list", "None"}

\* bool(v) is False
Falsy(v) == v \in {"empty str", "empty list", "None"}

\* a or b
Or(a, b) == IF Falsy(a) THEN b ELSE a

\* llm_interface.py:556-559
ExpectedFields ==
    {"OVERVIEW", "PROBLEM_STATEMENT", "METHODOLOGY", "ARCHITECTURE", "KEY_RESULTS",
     "IMPLICATIONS", "TAKEAWAYS", "FUTURE_DIRECTIONS", "BACKGROUND", "MATH_FORMULATIONS"}

\* The fields the prompt asks bullet points for, lists in lines 576-577.
MergeListFields == {"TAKEAWAYS", "FUTURE_DIRECTIONS"}

\* llm_interface.py:663-670
AnalysisFields ==
    {"TAKEAWAYS", "IMPORTANT_IDEAS", "FUTURE_IDEAS", "NOVELTY", "LIMITATIONS",
     "PRACTICAL_APPLICATIONS", "RELATED_WORK"}

AnalysisListFields ==
    {"TAKEAWAYS", "IMPORTANT_IDEAS", "FUTURE_IDEAS", "LIMITATIONS", "PRACTICAL_APPLICATIONS"}

\* A JSON object with the given keys: texts of one kind, lists of another.
ObjectOf(keys, listKeys, textKind, listKind) ==
    [k \in keys |-> IF k \in listKeys THEN listKind ELSE textKind]

\* The objects a merge response decodes to: empty, one key, all keys, all
\* keys with the bullet points written as one text, the list keys left out.
MergeObjects ==
    { ObjectOf({}, MergeListFields, "str", "list"),
      ObjectOf({"OVERVIEW"}, MergeListFields, "str", "list"),
      ObjectOf(ExpectedFields, MergeListFields, "str", "list"),
      ObjectOf(ExpectedFields, MergeListFields, "str", "str"),
      ObjectOf(ExpectedFields \ MergeListFields, MergeListFields, "str", "list") }

\* The objects an analysis response decodes to: empty, all keys, all keys
\* with texts or nulls for the lists, the texts only.
AnalysisObjects ==
    { ObjectOf({}, AnalysisListFields, "str", "list"),
      ObjectOf(AnalysisFields, AnalysisListFields, "str", "list"),
      ObjectOf(AnalysisFields, AnalysisListFields, "str", "str"),
      ObjectOf(AnalysisFields, AnalysisListFields, "str", "None"),
      ObjectOf(AnalysisFields \ AnalysisListFields, AnalysisListFields, "str", "list") }

\* No fields: the call did not return a dict.
NoObject == << >>

\* llm_interface.py:561-563: every expected field that is absent is set to "".
FillExpected(full_summary) ==
    [k \in DOMAIN full_summary \cup ExpectedFields |->
        IF k \in DOMAIN full_summary THEN full_summary[k] ELSE "empty str"]

\* llm_interface.py:571-582; OVERVIEW is response[:500]
MergeFallback(r) ==
    [k \in ExpectedFields |->
        IF k = "OVERVIEW" THEN (IF Min(r.len, FallbackChars) > 0 THEN "str" ELSE "empty str")
        ELSE IF k \in MergeListFields THEN "empty list" ELSE "empty str"]

\* LLMInterface.merge_chunk_summaries after its await, with the fields of
\* what it returns; obj is what the text handed to json.loads decodes to
\* when it is an object.
MergedSummary(r, obj) ==
    LET kind == merge_chunk_summaries(r, Get(obj, "ARCHITECTURE", "empty str") = "str").kind
    IN  [kind   |-> kind,
         fields |-> CASE kind = "dict"     -> FillExpected(obj)
                      [] kind = "fallback" -> MergeFallback(r)
                      [] OTHER             -> NoObject]

\* llm_interface.py:662-670
AnalysisFallback ==
    [k \in AnalysisFields |-> IF k \in AnalysisListFields THEN "empty list" ELSE "empty str"]

\* LLMInterface.generate_comprehensive_analysis from its import of the prompt
\* to its return: the decoded value is returned as it is.
Analysis(r, obj, importable) ==
    IF AnalysisPrologue(importable) # "ok"
    THEN [kind |-> AnalysisPrologue(importable), fields |-> NoObject]
    ELSE LET kind == generate_comprehensive_analysis(r)
         IN  [kind   |-> kind,
              fields |-> CASE kind = "dict"     -> obj
                           [] kind = "fallback" -> AnalysisFallback
                           [] OTHER             -> NoObject]

\* summarizer.py:295-330, the fields taken from the full summary and from
\* the analysis.
Record(full_summary, analysis) ==
    [summary                |-> Get(full_summary, "OVERVIEW", "empty str"),
     problem_statement      |-> Get(full_summary, "PROBLEM_STATEMENT", "empty str"),
     methodology            |-> Get(full_summary, "METHODOLOGY", "empty str"),
     architecture           |-> Get(full_summary, "ARCHITECTURE", "empty str"),
     key_results            |-> Get(full_summary, "KEY_RESULTS", "empty str"),
     implications           |-> Get(full_summary, "IMPLICATIONS", "empty str"),
     takeaways              |-> Get(analysis, "TAKEAWAYS", "empty list"),
     important_ideas        |-> Get(analysis, "IMPORTANT_IDEAS", "empty list"),
     future_directions      |-> Or(Get(analysis, "FUTURE_IDEAS", "empty list"),
                                   Get(full_summary, "FUTURE_DIRECTIONS", "empty list")),
     novelty                |-> Or(Get(analysis, "NOVELTY", "empty str"),
                                   Get(full_summary, "IMPLICATIONS", "empty str")),
     limitations            |-> Get(analysis, "LIMITATIONS", "empty list"),
     practical_applications |-> Get(analysis, "PRACTICAL_APPLICATIONS", "empty list"),
     related_work           |-> Get(analysis, "RELATED_WORK", "empty str"),
     background             |-> Get(full_summary, "BACKGROUND", "empty str"),
     math_formulations      |-> Get(full_summary, "MATH_FORMULATIONS", "empty str")]

NoCall == [kind |-> None, fields |-> NoObject]

IdleAssembly ==
    [pc |-> "idle",
     merge_response |-> Raise, merge_object |-> NoObject, full_summary |-> NoCall,
     analysis_response |-> Raise, analysis |-> NoCall,
     record |-> NoObject, raised |-> None]

\* summarizer.py:232-236: the merge call ends.  An exception of the call
\* leaves summarize_paper.
MergeReturns(r, obj) ==
    /\ assembly.pc = "idle"
    /\ LET m == MergedSummary(r, obj)
       IN  assembly' = [assembly EXCEPT
                          !.merge_response = r,
                          !.merge_object = IF ExtractJson(r) = "container" /\ r # Raise
                                           THEN obj ELSE NoObject,
                          !.full_summary = m,
                          !.pc = IF m.kind \in {"dict", "fallback"} THEN "merged" ELSE "raised",
                          !.raised = IF m.kind \in {"dict", "fallback"} THEN None ELSE m.kind]
    /\ UNCHANGED <<ids, storeVars, chunker, batch>>
    /\ UNCHANGED <<routerVars, pipelineVars>>

\* summarizer.py:242-247: the analysis call ends.
AnalysisReturns(r, obj) ==
    /\ assembly.pc = "merged"
    /\ LET a == Analysis(r, obj, install.prompts_importable)
       IN  assembly' = [assembly EXCEPT
                          !.analysis_response = r,
                          !.analysis = a,
                          !.pc = IF a.kind \in {"dict", "fallback", "value"}
                                 THEN "analysed" ELSE "raised",
                          !.raised = IF a.kind \in {"dict", "fallback", "value"}
                                     THEN None ELSE a.kind]
    /\ UNCHANGED <<ids, storeVars, chunker, batch>>
    /\ UNCHANGED <<routerVars, pipelineVars>>

\* summarizer.py:252-342: the calls between the analysis and the record end
\* (others: none of the similar-papers, code, blog and domain calls lets an
\* exception out), the identifier is generated, the record is assembled,
\* stored and returned.
Assemble(others) ==
    /\ assembly.pc = "analysed"
    /\ assembly' =
         IF ~others
         THEN [assembly EXCEPT !.pc = "raised", !.raised = "QueryError"]
         ELSE IF generate_paper_id(install.paper_id_patched) = "NameError"
         THEN [assembly EXCEPT !.pc = "raised", !.raised = "NameError"]
         ELSE IF assembly.analysis.kind = "value"
         THEN [assembly EXCEPT !.pc = "raised", !.raised = "AttributeError"]
         ELSE [assembly EXCEPT !.pc = "returned",
                               !.record = Record(assembly.full_summary.fields,
                                                 assembly.analysis.fields)]
    /\ UNCHANGED <<ids, storeVars, chunker, batch>>
    /\ UNCHANGED <<routerVars, pipelineVars>>

\* summarize_paper has ended; the next call starts afresh.
AssemblyEnd ==
    /\ assembly.pc \in {"returned", "raised"}
    /\ assembly' = IdleAssembly
    /\ UNCHANGED <<ids, storeVars, chunker, batch>>
    /\ UNCHANGED <<routerVars, pipelineVars>>

-----------------------------------------------------------------------------
(* PDFProcessor._chunk_text, pdf_processor.py:127-164 *)

\* Most iterations of the while loop that are followed: a loop that moves
\* start forward makes at most one per character of the texts below.
MaxIterations == 6

\* Longest text chunked.
MaxTextLen == 4

\* The characters of a text: a letter, the blank, the full stop, the newline.
TextChars == {"x", " ", ".", "\n"}

ChunkTexts == UNION { [1..n -> TextChars] : n \in 1..MaxTextLen }

\* (chunk_size, chunk_overlap) with overlap < size.
ChunkSettings == { <<1, 0>>, <<2, 0>>, <<2, 1>>, <<3, 1>>, <<3, 2>> }

\* The hard-wired reach of the search for a break point, lines 147 and 152.
BreakWindow == 100

\* How Python reads a slice bound i of a sequence of length n.
SliceBound(i, n) ==
    IF i < 0 THEN (IF i + n < 0 THEN 0 ELSE i + n)
    ELSE IF i > n THEN n ELSE i

\* text[a:b]
Slice(text, a, b) == SubSeq(text, SliceBound(a, Len(text)) + 1, SliceBound(b, Len(text)))

\* text.find(sub, a, b) for a sub of two characters: the lowest index, -1 if none.
find(text, sub, a, b) ==
    LET lo   == SliceBound(a, Len(text))
        hi   == SliceBound(b, Len(text))
        hits == { i \in lo..(hi - 2) : text[i + 1] = sub[1] /\ text[i + 2] = sub[2] }
    IN  IF hits = {} THEN -1 ELSE CHOOSE i \in hits : \A j \in hits : i <= j

\* Lines 143-154: the end of the chunk that starts at start.
ChunkEnd(text, start, chunk_size) ==
    LET end == Min(start + chunk_size, Len(text))
    IN  IF end < Len(text)
        THEN LET next_para == find(text, <<"\n", "\n">>, end - BreakWindow, end + BreakWindow)
                 next_sentence == find(text, <<".", " ">>, end - BreakWindow, end + BreakWindow)
             IN  IF next_para # -1 /\ next_para < end + BreakWindow
                 THEN next_para
                 ELSE IF next_sentence # -1 /\ next_sentence < end + BreakWindow
                      THEN next_sentence + 1
                      ELSE end
        ELSE end

IdleChunker ==
    [pc |-> "idle", text |-> << >>, chunk_size |-> 0, chunk_overlap |-> 0,
     start |-> 0, previous_start |-> -1, iterations |-> 0, chunks |-> << >>]

\* _chunk_text(text) is called on a processor of the given settings.
chunk_text(text, setting) ==
    /\ chunker.pc = "idle"
    /\ chunker' = [IdleChunker EXCEPT !.pc = "while", !.text = text,
                                      !.chunk_size = setting[1],
                                      !.chunk_overlap = setting[2]]
    /\ UNCHANGED <<ids, storeVars, assembly, batch>>
    /\ UNCHANGED <<routerVars, pipelineVars>>

\* One pass of the while loop, lines 142-162; a chunk is kept with the
\* offset it starts at.
ChunkLoop ==
    /\ chunker.pc = "while"
    /\ chunker.start < Len(chunker.text)
    /\ chunker.iterations < MaxIterations
    /\ LET text  == chunker.text
           end   == ChunkEnd(text, chunker.start, chunker.chunk_size)
           chunk == strip(Slice(text, chunker.start, end))
       IN  chunker' = [chunker EXCEPT
                         !.chunks = IF chunk # << >>
                                    THEN Append(@, [offset |-> SliceBound(chunker.start, Len(text)),
                                                    chunk  |-> chunk])
                                    ELSE @,
                         !.previous_start = chunker.start,
                         !.start = IF end < Len(text) THEN end - chunker.chunk_overlap
                                                      ELSE Len(text),
                         !.iterations = @ + 1]
    /\ UNCHANGED <<ids, storeVars, assembly, batch>>
    /\ UNCHANGED <<routerVars, pipelineVars>>

\* The loop condition fails: return chunks.
ChunkReturn ==
    /\ chunker.pc = "while"
    /\ ~(chunker.start < Len(chunker.text))
    /\ chunker' = [chunker EXCEPT !.pc = "returned"]
    /\ UNCHANGED <<ids, storeVars, assembly, batch>>
    /\ UNCHANGED <<routerVars, pipelineVars>>

-----------------------------------------------------------------------------
(* batch_process: summarize_paper calls gathered on one summarizer,
   examples/batch_processing.py:68-89 *)

\* Most summarize_paper calls gathered at once.
MaxConcurrent == 2

BatchCalls == 1..MaxConcurrent

\* The local variables of one summarize_paper coroutine.  chunk_summaries,
\* full_summary and analysis are kept with the paper whose text they were
\* made from.
IdleBatchCall ==
    [pc |-> "idle", filepath |-> None,
     task |-> "none",
     chunk_summaries |-> [kind |-> None, of |-> None],
     full_summary |-> [kind |-> None, of |-> None],
     analysis |-> [kind |-> None, of |-> None],
     similar_papers |-> None, paper_id |-> None,
     outcome |-> None, error |-> None,
     result |-> [paper_id |-> None, filepath |-> None, domain |-> None,
                 summary_of |-> None, analysis_of |-> None]]

\* calls: the coroutines; writes: the add_paper calls that completed, in
\* the order they were made.
IdleBatch == [calls |-> [c \in BatchCalls |-> IdleBatchCall], writes |-> << >>]

\* An exception leaves summarize_paper: its locals are gone, process_paper
\* catches the exception and returns None.
BatchRaise(b, exc) ==
    [IdleBatchCall EXCEPT !.pc = "done", !.filepath = b.filepath,
                          !.outcome = "raised", !.error = exc]

\* process_paper calls summarize_paper(filepath=pdf_path): lines 201-226 up
\* to the gather, for a paper of one chunk.
BatchStart(c, f, exists) ==
    /\ batch.calls[c].pc = "idle"
    /\ batch' = [batch EXCEPT !.calls[c] =
                   IF extract_and_chunk(exists) = "FileNotFoundError"
                   THEN BatchRaise([@ EXCEPT !.filepath = f], "FileNotFoundError")
                   ELSE [@ EXCEPT !.pc = "gather", !.filepath = f, !.task = "pending"]]
    /\ UNCHANGED <<ids, storeVars, assembly, chunker>>
    /\ UNCHANGED <<routerVars, pipelineVars>>

\* The chunk task of call c ends.
BatchChunkDone(c, r) ==
    /\ batch.calls[c].pc = "gather"
    /\ batch.calls[c].task = "pending"
    /\ LET s == summarize_paper_chunk(r)
       IN  batch' = [batch EXCEPT !.calls[c] =
                       [@ EXCEPT !.task = IF s.kind = "raised" THEN "raised" ELSE "returned",
                                 !.chunk_summaries = [kind |-> s.kind,
                                                       of |-> batch.calls[c].filepath]]]
    /\ UNCHANGED <<ids, storeVars, assembly, chunker>>
    /\ UNCHANGED <<routerVars, pipelineVars>>

\* The summaries a merge is called with, had summarize_paper kept them in an
\* attribute of the shared summarizer that the latest gather overwrites.
merge_input_shared(b, c) ==
    IF \E d \in BatchCalls \ {c} : b.calls[d].chunk_summaries.kind # None
    THEN b.calls[CHOOSE d \in BatchCalls \ {c} : b.calls[d].chunk_summaries.kind # None]
            .chunk_summaries
    ELSE b.calls[c].chunk_summaries

\* summarizer.py:228-233: the summaries merge_chunk_summaries is called with
\* are the local chunk_summaries of the call.
merge_input(b, c) == b.calls[c].chunk_summaries

\* summarize_paper of call c resumes from gather, lines 228-236.
BatchGatherDone(c) ==
    /\ batch.calls[c].pc = "gather"
    /\ batch.calls[c].task \in {"raised", "returned"}
    /\ batch' = [batch EXCEPT !.calls[c] =
                   IF @.task = "raised"
                   THEN BatchRaise(@, "QueryError")
                   ELSE IF merge_input(batch, c).kind = "value"
                   THEN BatchRaise(@, "AttributeError")
                   ELSE [@ EXCEPT !.pc = "merge", !.task = "none",
                                  !.chunk_summaries.kind = "consumed",
                                  !.full_summary = [kind |-> None,
                                                    of |-> merge_input(batch, c).of]]]
    /\ UNCHANGED <<ids, storeVars, assembly, chunker>>
    /\ UNCHANGED <<routerVars, pipelineVars>>

\* The merge call of c ends, lines 232-247.  ARCHITECTURE is read by the code
\* stage only, which these calls do not ask for.
BatchMergeDone(c, r) ==
    /\ batch.calls[c].pc = "merge"
    /\ LET fs == merge_chunk_summaries(r, FALSE)
       IN  batch' = [batch EXCEPT !.calls[c] =
                       IF fs.kind = "raised" THEN BatchRaise(@, "QueryError")
                       ELSE IF fs.kind = "TypeError" THEN BatchRaise(@, "TypeError")
                       ELSE IF AnalysisPrologue(install.prompts_importable) # "ok"
                       THEN BatchRaise(@, "ModuleNotFoundError")
                       ELSE [@ EXCEPT !.pc = "analysis", !.full_summary.kind = "merged",
                                      !.analysis = [kind |-> None,
                                                    of |-> batch.calls[c].full_summary.of]]]
    /\ UNCHANGED <<ids, storeVars, assembly, chunker>>
    /\ UNCHANGED <<routerVars, pipelineVars>>

\* The analysis call of c ends, lines 242-256.
BatchAnalysisDone(c, r) ==
    /\ batch.calls[c].pc = "analysis"
    /\ LET a == generate_comprehensive_analysis(r)
       IN  batch' = [batch EXCEPT !.calls[c] =
                       IF a = "raised" THEN BatchRaise(@, "QueryError")
                       ELSE [@ EXCEPT !.pc = "similar", !.analysis.kind = a]]
    /\ UNCHANGED <<ids, storeVars, assembly, chunker>>
    /\ UNCHANGED <<routerVars, pipelineVars>>

\* The similar-papers call of c ends; neither code nor blog is asked for;
\* the identifier is generated and the domain call made, lines 258-293.
BatchSimilarDone(c, r, items, sized) ==
    /\ batch.calls[c].pc = "similar"
    /\ LET sp == generate_similar_papers(r, items, sized)
           id == generate_paper_id(install.paper_id_patched)
       IN  batch' = [batch EXCEPT !.calls[c] =
                       IF sp = "raised" THEN BatchRaise(@, "QueryError")
                       ELSE IF sp = "unsized" THEN BatchRaise(@, "TypeError")
                       ELSE IF id = "NameError" THEN BatchRaise(@, "NameError")
                       ELSE [@ EXCEPT !.pc = "domain", !.similar_papers = sp,
                                      !.paper_id = id]]
    /\ UNCHANGED <<ids, storeVars, assembly, chunker>>
    /\ UNCHANGED <<routerVars, pipelineVars>>

\* The domain call of c ends: the record is assembled, stored and returned,
\* lines 295-342.  add_paper has no await: the write is one step.
BatchDomainDone(c, r, stored) ==
    /\ batch.calls[c].pc = "domain"
    /\ LET b   == batch.calls[c]
           d   == determine_paper_domain(r)
           rec == [paper_id |-> b.paper_id, filepath |-> b.filepath, domain |-> d,
                   summary_of |-> b.full_summary.of, analysis_of |-> b.analysis.of]
           written == b.analysis.kind # "value"
                        /\ StoreArguments(b.similar_papers) = "ok" /\ stored
           entry == [filepath |-> b.filepath, domain |-> d]
       IN  /\ batch' = [batch EXCEPT
                          !.calls[c] = IF b.analysis.kind = "value"
                                       THEN BatchRaise(b, "AttributeError")
                                       ELSE [IdleBatchCall EXCEPT
                                               !.pc = "done", !.filepath = b.filepath,
                                               !.outcome = "returned", !.result = rec],
                          !.writes = IF written
                                     THEN Append(@, [by |-> c, paper_id |-> b.paper_id,
                                                     entry |-> entry])
                                     ELSE @]
           /\ db' = IF written THEN [db EXCEPT ![b.paper_id] = entry] ELSE db
    /\ UNCHANGED <<install, run>>
    /\ UNCHANGED <<ids, storeVars, assembly, chunker>>
    /\ UNCHANGED routerVars

\* The components checked on their own, not in use.
LibraryIdle ==
    /\ ids = IdleIds
    /\ papers_collection = EmptyCollection
    /\ updates = 0
    /\ reply = IdleReply
    /\ assembly = IdleAssembly
    /\ chunker = IdleChunker
    /\ batch = IdleBatch

RouterInit ==
    /\ openai_api_key \in BOOLEAN
    /\ google_api_key \in BOOLEAN
    /\ \E requested \in ModelNames \cup {None}, env \in {None, "gpt-4o", "gemini-1.5-pro"} :
          default_model = InitDefaultModel(requested, env, openai_api_key, google_api_key)
    /\ call = IdleCall
    /\ install = [prompts_importable |-> FALSE, paper_id_patched |-> FALSE]
    /\ run = IdleRun
    /\ db = EmptyDb
    /\ LibraryIdle

RouterNext ==
    \/ \E m \in ModelNames \cup {None} : query_model(m)
    \/ \E t \in {"openai", "google"}, m \in ModelNames \cup {None} : query_transport(t, m)
    \/ \E o \in HttpOutcomes : HttpAnswer(o)
    \/ RetryAttempt

SpecRouter == RouterInit /\ [][RouterNext]_vars

\* The summarizer after construction, on an installation in which
\* research_pal.prompts resolves or not and _generate_paper_id is the method of
\* the source or the replacement of tests/conftest.py.
Init ==
    /\ openai_api_key = TRUE
    /\ google_api_key = TRUE
    /\ default_model = InitDefaultModel(None, None, TRUE, TRUE)
    /\ call = IdleCall
    /\ install \in [prompts_importable : BOOLEAN, paper_id_patched : BOOLEAN]
    /\ run = IdleRun
    /\ db = EmptyDb
    /\ LibraryIdle

Next ==
    \/ \E f \in Filepaths, exists \in BOOLEAN, gc \in BOOLEAN, gb \in BOOLEAN,
          n \in 0..MaxChunks : summarize_paper(f, exists, gc, gb, n)
    \/ \E i \in Chunks, r \in QueryResults : ChunkDone(i, r)
    \/ GatherDone
    \/ \E r \in ShapeResults, arch \in BOOLEAN : MergeDone(r, arch)
    \/ \E r \in ShapeResults : AnalysisDone(r)
    \/ \E r \in ShapeResults, items \in BOOLEAN, sized \in BOOLEAN : SimilarDone(r, items, sized)
    \/ \E r \in ShapeResults, empty \in BOOLEAN : CodeDone(r, empty)
    \/ \E r \in ShapeResults, empty \in BOOLEAN : BlogDone(r, empty)
    \/ \E r \in ShapeResults, stored \in BOOLEAN : DomainDone(r, stored)
    \/ Return

Spec == Init /\ [][Next]_vars

\* _generate_paper_id on its own, on the installation of the source.
PaperIdInit ==
    /\ openai_api_key = TRUE
    /\ google_api_key = TRUE
    /\ default_model = InitDefaultModel(None, None, TRUE, TRUE)
    /\ call = IdleCall
    /\ install = [prompts_importable |-> FALSE, paper_id_patched |-> FALSE]
    /\ run = IdleRun
    /\ db = EmptyDb
    /\ LibraryIdle

PaperIdNext ==
    \E filepath \in IdFilepaths, title \in IdTitles : generate_paper_id_call(filepath, title)

SpecPaperId == PaperIdInit /\ [][PaperIdNext]_vars

\* ChromaManager on its own.
StoreNext ==
    \/ \E id \in StoreIds, p \in PaperArgs : AddPaper(id, p)
    \/ \E id \in StoreIds : GetPaper(id)
    \/ \E id \in StoreIds, fails \in BOOLEAN : GetPaperSummary(id, fails)
    \/ \E id \in StoreIds, field \in UpdatedFields : UpdatePaperField(id, field)
    \/ \E filepath \in StoreFilepaths, order \in QueryOrders, similar \in BOOLEAN :
          CheckPaperExists(filepath, order, similar)
    \/ StoreReturn

SpecStore == PaperIdInit /\ [][StoreNext]_vars

\* The merge, the analysis and the assembly of the record, on any
\* installation.
RecordNext ==
    \/ \E r \in ShapeResults, obj \in MergeObjects : MergeReturns(r, obj)
    \/ \E r \in ShapeResults, obj \in AnalysisObjects : AnalysisReturns(r, obj)
    \/ \E others \in BOOLEAN : Assemble(others)
    \/ AssemblyEnd

SpecRecord == Init /\ [][RecordNext]_vars

\* One response for each outcome of the extraction, and the exception.
OutcomeResults ==
    { Response([open |-> TRUE, close |-> TRUE, decodes |-> TRUE], 3),
      Response([open |-> FALSE, close |-> FALSE, decodes |-> TRUE], 3),
      Response([open |-> FALSE, close |-> FALSE, decodes |-> FALSE], 3),
      Raise }

\* The calls of one batch_process, interleaved at their awaits.
BatchNext ==
    \/ \E c \in BatchCalls, f \in Filepaths, exists \in BOOLEAN : BatchStart(c, f, exists)
    \/ \E c \in BatchCalls, r \in OutcomeResults : BatchChunkDone(c, r)
    \/ \E c \in BatchCalls : BatchGatherDone(c)
    \/ \E c \in BatchCalls, r \in OutcomeResults : BatchMergeDone(c, r)
    \/ \E c \in BatchCalls, r \in OutcomeResults : BatchAnalysisDone(c, r)
    \/ \E c \in BatchCalls, r \in OutcomeResults, items \in BOOLEAN, sized \in BOOLEAN :
          BatchSimilarDone(c, r, items, sized)
    \/ \E c \in BatchCalls, r \in OutcomeResults, stored \in BOOLEAN : BatchDomainDone(c, r, stored)

SpecBatch == Init /\ [][BatchNext]_vars

\* PDFProcessor._chunk_text on its own.
ChunkNext ==
    \/ \E text \in ChunkTexts, setting \in ChunkSettings : chunk_text(text, setting)
    \/ ChunkLoop
    \/ ChunkReturn

SpecChunk == PaperIdInit /\ [][ChunkNext]_vars

-----------------------------------------------------------------------------
(* The claims *)

Calls(st) == run.calls[st]

\* C1: when the chunk-analysis call of one chunk raises, the failed chunk is
\* replaced by a fallback value and summarize_paper still goes on to merge and
\* returns a record: a finished call in which a chunk task raised has called
\* merge_chunk_summaries and has returned.
C1_ChunkFailureIsolated ==
    (run.pc = "done" /\ \E i \in 1..run.nchunks : run.tasks[i] = "raised")
        => /\ Calls("merge_chunk_summaries") = 1
           /\ run.outcome = "returned"

C3_ReturnedRecordWasWritten ==
    run.outcome = "returned"
        => /\ Calls("add_paper") = 1
           /\ run.result.paper_id \in PaperIds

\* C4: a missing input file, a merge that raises and an analysis that raises
\* each end the call with an exception, with no later stage called and the
\* store as it was; for a missing file no model call is made at all.
C4_FatalErrorsPropagate ==
    /\ (run.pc # "idle" /\ ~run.file_exists)
          => /\ run.pc = "done"
             /\ run.outcome = "raised"
             /\ run.error = "FileNotFoundError"
             /\ \A st \in ModelStages \cup {"generate_paper_id", "add_paper"} : Calls(st) = 0
             /\ db = run.db_before
    /\ run.raised_in = "merge_chunk_summaries"
          => /\ run.pc = "done"
             /\ run.outcome = "raised"
             /\ \A st \in Stages \ {"extract_and_chunk", "summarize_paper_chunk",
                                    "merge_chunk_summaries"} : Calls(st) = 0
             /\ db = run.db_before
    /\ run.raised_in = "generate_comprehensive_analysis"
          => /\ run.pc = "done"
             /\ run.outcome = "raised"
             /\ \A st \in {"generate_similar_papers", "generate_code_implementation",
                           "generate_blog_post", "generate_paper_id",
                           "determine_paper_domain", "add_paper"} : Calls(st) = 0
             /\ db = run.db_before

\* C4 witness: the model call of merge has raised in a call made while a
\* record is stored.
C4_Witness ==
    /\ run.raised_in = "merge_chunk_summaries"
    /\ run.error = "QueryError"
    /\ \E id \in PaperIds : db[id] # NoEntry

\* C5: a code or blog generation that raises leaves summarize_paper returning
\* the record and writing it to the store.
C5_OptionalFailureTolerated ==
    run.raised_in \in {"generate_code_implementation", "generate_blog_post"}
        => /\ run.outcome = "returned"
           /\ Calls("add_paper") = 1

\* C6: a chunk whose response could not be decoded as a JSON object has a
\* ChunkSummary whose SUMMARY is the first at most 500 characters of the
\* response and whose every other field is empty.
C6_DegradedChunkSummary ==
    \A i \in 1..run.nchunks :
        run.chunk_summaries[i].kind \in {"value", "fallback"}
            => /\ run.chunk_summaries[i].kind = "fallback"
               /\ LET f == run.chunk_summaries[i].fields
                  IN  /\ f.SUMMARY.chars = Min(f.SUMMARY.of, FallbackChars)
                      /\ f.SECTION_IDENTIFICATION = ""
                      /\ f.KEY_FINDINGS = << >>
                      /\ f.TECHNICAL_DETAILS = ""
                      /\ f.MATH_FORMULATIONS = ""
                      /\ f.ARCHITECTURE_DETAILS = ""
                      /\ f.RESULTS = ""

\* The provider of the model a query_model call asked for, and the other one.
RequestedProvider ==
    select_provider(IF call.requested = None THEN default_model ELSE call.requested)

Other(t) == IF t = "openai" THEN "google" ELSE "openai"

\* C7: query_model for a model whose provider has no credential, while the
\* other provider has one, is dispatched to the other provider's transport and
\* does not raise for the missing credential.
C7_FallsBackToOtherProvider ==
    (/\ call.entry = "query_model"
     /\ call.pc # "idle"
     /\ ~HasKey(RequestedProvider)
     /\ HasKey(Other(RequestedProvider)))
        => /\ call.transport = Other(RequestedProvider)
           /\ call.result # "ValueError"

\* The failures the specification calls transient: 5xx, rate limit, timeout.
Transient(o) == o \in {"500", "429", "ConnectTimeout", "ReadTimeout"}

\* C8: a transport call makes at most 3 HTTP attempts, makes a further attempt
\* only after a transient failure, makes none after a success, and after a
\* third transient failure in a row ends with an error.
C8_AtMostThreeAttempts ==
    /\ Len(call.log) <= 3
    /\ \A k \in 1..Len(call.log) :
          /\ (k < Len(call.log) \/ call.pc \in {"backoff", "http"}) => Transient(call.log[k])
          /\ call.log[k] = "200" => (k = Len(call.log) /\ call.pc = "done")
    /\ (Len(call.log) = 3 /\ \A k \in 1..3 : Transient(call.log[k]))
          => (call.pc = "done" /\ call.result \notin {None, "text"})

\* C9: an answer with a non-transient HTTP error (a 4xx other than rate
\* limit) ends the transport call with an error at once: no retry follows it.
C9_NonTransientNotRetried ==
    \A k \in 1..Len(call.log) :
        call.log[k] = "400"
            => /\ k = Len(call.log)
               /\ call.pc = "done"
               /\ call.result \notin {None, "text"}

\* C10: a request that exceeds the 60 s timeout, while connecting or while
\* waiting for the response, is retried under the 3-attempts policy: the call
\* does not end on a timeout before its third attempt.
C10_TimeoutRetried ==
    (/\ call.pc = "done"
     /\ Len(call.log) >= 1
     /\ call.log[Len(call.log)] \in {"ConnectTimeout", "ReadTimeout"})
        => Len(call.log) = StopAfterAttempt

\* The call of _generate_paper_id has returned an identifier.
IsPaperId(result) == result.raised = None /\ result.value # << >>

\* C11: two calls of _generate_paper_id with the same filepath and the same
\* title return the same paper_id (an identifier, under which the store then
\* keeps a single entry).
C11_SamePairSameId ==
    (/\ ids.previous.called
     /\ ids.previous.filepath = ids.last.filepath
     /\ ids.previous.title = ids.last.title)
        => /\ IsPaperId(ids.last.result)
           /\ ids.previous.result = ids.last.result

\* C12: two calls of _generate_paper_id whose pairs differ in the filepath or
\* in the title return different identifiers.
C12_DistinctPairsDistinctIds ==
    (/\ ids.previous.called
     /\ \/ ids.previous.filepath # ids.last.filepath
        \/ ids.previous.title # ids.last.title)
        => /\ IsPaperId(ids.previous.result)
           /\ IsPaperId(ids.last.result)
           /\ ids.previous.result # ids.last.result

\* C13: an add_paper over an entry of the same id leaves get_paper returning
\* what it returns when the paper is added to an empty collection: the record
\* of the second add_paper alone, in the one entry of the id.
C13_UpsertReplaces ==
    reply.op = "add_paper"
        => /\ papers_collection[reply.id].present
           /\ reply.paper = get_paper(add_paper(EmptyCollection, reply.id, reply.args), reply.id)
           /\ reply.paper.title = reply.args.title
           /\ reply.paper.filepath = reply.args.filepath
           /\ reply.paper.domain = reply.args.domain

\* C13 witness: an add_paper has replaced a different entry of its id.
C13_Witness == reply.op = "add_paper" /\ reply.replaced

\* The text fields and the list fields of a stored record.
RoundTripFields == {"summary", "architecture", "background", "math_formulations",
                    "novelty", "takeaways", "important_ideas", "future_ideas",
                    "similar_papers"}

\* C14: after add_paper(id, fields), get_paper(id) returns each text field
\* and each list field equal to the value written.
C14_GetReturnsWhatWasWritten ==
    reply.op = "add_paper"
        => \A k \in RoundTripFields :
              Truthy(reply.args[k])
                 => (k \in DOMAIN reply.paper /\ reply.paper[k] = reply.args[k])

\* C15: after update_paper_field(id, field, value) on a stored paper,
\* get_paper(id) returns value for the field and what it returned before for
\* every other field.
C15_UpdateChangesOneField ==
    (reply.op = "update_paper_field" /\ reply.raised = None)
        => /\ reply.field \in DOMAIN reply.paper
           /\ reply.paper[reply.field] = reply.value
           /\ \A k \in DOMAIN reply.before \ {reply.field} :
                  k \in DOMAIN reply.paper /\ reply.paper[k] = reply.before[k]

\* A paper is stored under the path, up to normalisation.
StoredUnder(filepath) ==
    \E id \in StoreIds :
        /\ papers_collection[id].present
        /\ abspath(expanduser(papers_collection[id].metadata.filepath))
              = abspath(expanduser(filepath))

\* C16: the idempotency check for the path of a stored record yields the id
\* of a stored record and the shell does not run the pipeline again; it
\* yields None when no stored paper has the path.
C16_StoredPaperIsFound ==
    reply.op = "check_paper_exists"
        => /\ StoredUnder(reply.filepath)
                => (reply.found \in StoreIds /\ reply.skipped)
           /\ (\A id \in StoreIds : ~papers_collection[id].present)
                => (reply.found = None /\ ~reply.skipped)

\* The empty value of an expected field of the full summary.
EmptyOfKind(k) == IF k \in MergeListFields THEN "empty list" ELSE "empty str"

\* C17: for every model response merge_chunk_summaries returns a structure
\* with all ten expected keys, and every key the response did not give is
\* the empty value of its kind: the empty list for TAKEAWAYS and
\* FUTURE_DIRECTIONS, the empty string for the others (OVERVIEW of a response
\* that was not parsed is the start of the response).
C17_MergeFillsByKind ==
    (assembly.pc # "idle" /\ assembly.merge_response # Raise)
      => /\ assembly.full_summary.kind \in {"dict", "fallback"}
         /\ ExpectedFields \subseteq DOMAIN assembly.full_summary.fields
         /\ \A k \in ExpectedFields \ DOMAIN assembly.merge_object :
               \/ assembly.full_summary.fields[k] = EmptyOfKind(k)
               \/ k = "OVERVIEW" /\ assembly.full_summary.kind = "fallback"

RecordListFields ==
    {"takeaways", "important_ideas", "future_directions", "limitations",
     "practical_applications"}

\* C18: in every record summarize_paper returns, takeaways, important_ideas,
\* future_directions, limitations and practical_applications are lists,
\* never null and never a string, and they are empty when neither the merge
\* nor the analysis response could be parsed.
C18_RecordListsAreLists ==
    assembly.pc = "returned"
      => /\ \A k \in RecordListFields : assembly.record[k] \in {"list", "empty list"}
         /\ (assembly.full_summary.kind = "fallback" /\ assembly.analysis.kind = "fallback")
               => \A k \in RecordListFields : assembly.record[k] = "empty list"

\* C19: for an analysis response that is not parsed as a JSON object,
\* generate_comprehensive_analysis returns, and what it returns has the seven
\* fields, the five lists empty and NOVELTY and RELATED_WORK the empty string.
C19_AnalysisFallback ==
    (assembly.pc \in {"analysed", "returned", "raised"}
       /\ assembly.full_summary.kind \in {"dict", "fallback"}
       /\ assembly.analysis.kind # None
       /\ assembly.analysis_response # Raise
       /\ ExtractJson(assembly.analysis_response) # "container")
      => /\ assembly.analysis.kind = "fallback"
         /\ assembly.analysis.fields = AnalysisFallback

\* C20: _chunk_text of a non-empty text moves on with every pass of its loop
\* and returns a non-empty sequence of chunks, each non-empty after trimming
\* and each starting later in the text than the one before.
C20_ChunksNonEmptyInOrder ==
    /\ (chunker.pc = "while" /\ chunker.iterations > 0)
          => chunker.start > chunker.previous_start
    /\ chunker.pc = "returned"
          => /\ chunker.chunks # << >>
             /\ \A k \in 1..Len(chunker.chunks) : chunker.chunks[k].chunk # << >>
             /\ \A k \in 2..Len(chunker.chunks) :
                    chunker.chunks[k].offset > chunker.chunks[k - 1].offset

\* C21: every pass of the loop of _chunk_text, for 0 <= overlap < size, puts
\* the start of the next window after the start of this one, also when the
\* cut was moved to a paragraph or sentence break; so the loop ends.
C21_StartStrictlyIncreases ==
    [][(chunker.pc = "while" /\ chunker'.pc = "while" /\ chunker' # chunker)
         => chunker'.start > chunker.start]_vars

\* C22: no chunk kept by _chunk_text is longer than chunk_size, also when
\* the cut was moved to a paragraph break or a sentence end.
C22_ChunkAtMostChunkSize ==
    \A k \in 1..Len(chunker.chunks) : Len(chunker.chunks[k].chunk) <= chunker.chunk_size

\* C23: the code generator is called only when generate_code was asked for
\* and the merged ARCHITECTURE is non-empty; a returned record has the key
\* code_implementation only then and the key blog_post only when
\* generate_blog was asked for; and a record returned for generate_code with
\* an empty ARCHITECTURE has every other section and no code_implementation.
C23_OptionalKeysOnlyWhenRequested ==
    /\ Calls("generate_code_implementation") > 0
          => run.generate_code /\ run.full_summary.ARCHITECTURE
    /\ Calls("generate_blog_post") > 0 => run.generate_blog
    /\ run.outcome = "returned"
          => /\ "code_implementation" \in run.result.keys
                   => run.generate_code /\ run.full_summary.ARCHITECTURE
             /\ "blog_post" \in run.result.keys => run.generate_blog
             /\ (run.generate_code /\ ~run.full_summary.ARCHITECTURE)
                   => /\ Calls("generate_code_implementation") = 0
                      /\ "code_implementation" \notin run.result.keys
                      /\ PrimaryKeys \subseteq run.result.keys

\* C23 witness: a record is returned for a call that asked for code and blog
\* on a paper whose merged ARCHITECTURE is empty; it has the blog post.
C23_Witness ==
    /\ run.outcome = "returned"
    /\ run.generate_code /\ run.generate_blog
    /\ ~run.full_summary.ARCHITECTURE
    /\ "blog_post" \in run.result.keys
    /\ "code_implementation" \notin run.result.keys

\* C24: a call whose domain-classification call raised has the domain
\* "Unknown", returns a record with that domain and has issued the write of
\* it; the store holds the record with that domain unless the write failed.
C24_DomainFailureIsAbsorbed ==
    (run.pc = "done" /\ run.domain = "Unknown")
        => /\ run.outcome = "returned"
           /\ run.result.domain = "Unknown"
           /\ Calls("add_paper") = 1
           /\ db[run.paper_id] \in {run.db_before[run.paper_id],
                                    [filepath |-> run.filepath, domain |-> "Unknown"]}

\* The API model names of the registered models.
RegistryApiNames == { get_actual_model_name(m) : m \in DOMAIN model_configs }

\* C25: a query_model call for a name that is not in the registry is sent to
\* a provider of the registry under the API name of a registered model, not
\* under the unrecognised name.
C25_UnregisteredResolvesToDefault ==
    (/\ call.entry = "query_model"
     /\ call.requested \in UnregisteredModels
     /\ call.api_model # None)
        => /\ call.api_model \in RegistryApiNames
           /\ call.api_model # call.requested
           /\ \E m \in DOMAIN model_configs :
                 /\ model_configs[m].provider = call.transport
                 /\ get_actual_model_name(m) = call.api_model

\* C29: after construction with at least one credential present, the
\* provider _select_provider gives for default_model has its credential.
C29_DefaultModelHasCredential ==
    (openai_api_key \/ google_api_key) => HasKey(select_provider(default_model))

\* C30: update_paper_field for a paper_id that is not stored raises
\* ValueError (PaperSummarizer.update_paper_field returns False), writes
\* nothing and leaves the store as it was, with no entry under that id.
C30_UpdateOfAbsentPaperFails ==
    [][(/\ reply.op = "idle"
        /\ reply'.op = "update_paper_field"
        /\ ~papers_collection[reply'.id].present)
          => /\ reply'.raised = "ValueError"
             /\ ~summarizer_update_paper_field(reply'.raised)
             /\ papers_collection' = papers_collection
             /\ ~papers_collection'[reply'.id].present
             /\ reply'.paper = NoPaper]_vars

\* C30 witness: an update of an absent paper has failed while another paper
\* is stored.
C30_Witness ==
    /\ reply.op = "update_paper_field"
    /\ reply.raised = "ValueError"
    /\ ~papers_collection[reply.id].present
    /\ \E id \in StoreIds : papers_collection[id].present

\* The completed writes under an identifier, in order.
WritesTo(id) == SelectSeq(batch.writes, LAMBDA w : w.paper_id = id)

C26_FailedWriteIsSurfaced ==
    (/\ run.pc = "done"
     /\ Calls("add_paper") = 1
     /\ db[run.paper_id] # [filepath |-> run.filepath, domain |-> run.result.domain])
        => run.error # None


\* C27: when the store raises on the read that get_paper_summary makes, the
\* caller gets an error, not the None of a paper that was not found.
C27_ReadFailurePropagates ==
    (reply.op = "get_paper_summary" /\ reply.store_raised) => reply.raised # None

====
